---- MODULE Spec2Model ----
(***************************************************************************)
(* A model of scripts/convert_mht_to_pdf.py: the batch driver (main), the  *)
(* renderer invoker (render_pdf), the field resolution of extract_from_mht *)
(* (clean_text, first_nonempty, extract_json_ld), the date normalisation   *)
(* (parse_dt, pdf_dt_from_iso) and the PDF metadata writer                 *)
(* (apply_pdf_metadata).                                                   *)
(***************************************************************************)
EXTENDS Integers, Sequences, FiniteSets, TLC

VARIABLES
    \* ---- main(): the batch driver
    args,         \* parsed command line: explicit output root, recursion, skip
    files,        \* the targeted source files, sorted and cut to --max-files
    targetCount,  \* the number logged as "Target count"
    idx,          \* position of the for loop over files
    pc,           \* the statement main is at
    cur,          \* locals of the current iteration: out_pdf, temp_norm, exception
    pdf,          \* file system: content of every output PDF path
    sidecar,      \* file system: content of every .metadata.json path
    norm,         \* file system: normalized temp copies that exist
    profiles,     \* file system: per-render profile directories that exist
    renders,      \* browser runs so far: loop index -> what the browser did
    ok,           \* main's ok counter
    fail,         \* main's fail counter
    log,          \* lines written by log(), outcome lines and DONE
    exit,         \* exit status of the process, -1 while running
    \* ---- extract_from_mht(): field resolution
    page,         \* the candidate sources of the parsed HTML and headers
    meta,         \* the fields resolved so far
    fpc,          \* the field extract_from_mht resolves next
    \* ---- extract_json_ld()
    scripts,      \* the ld+json script blocks of the page, in document order
    out,          \* the dict extract_json_ld builds
    spc,          \* the script block the loop is at
    \* ---- parse_dt(), pdf_dt_from_iso()
    dt_str,            \* the published_raw string handed to parse_dt
    local_offset,      \* the UTC offset of the machine's local time zone, hours
    published_date_iso,\* extract_from_mht's published_date_iso
    creation_date,     \* the /CreationDate apply_pdf_metadata writes
    dpc,               \* the date step that comes next
    \* ---- apply_pdf_metadata()
    pmeta,        \* the ExtractedMetadata handed to apply_pdf_metadata
    info,         \* the info dictionary written to the PDF
    xmp,          \* the XMP packet written to the PDF
    ppc           \* whether apply_pdf_metadata has run

batchVars == <<args, files, targetCount, idx, pc, cur, pdf, sidecar, norm,
               profiles, renders, ok, fail, log, exit>>

fieldVars == <<page, meta, fpc>>

jsonVars == <<scripts, out, spc>>

dateVars == <<dt_str, local_offset, published_date_iso, creation_date, dpc>>

pdfVars == <<pmeta, info, xmp, ppc>>

vars == <<batchVars, fieldVars, jsonVars, dateVars, pdfVars>>

\* ------------------------------------------------------------------ bounds

\* At most this many candidate files in the source tree, and --max-files up to it.
MaxFiles == 3

\* The longest attribute, header or text value of a page.
MaxStrLen == 3

\* Wall-clock times run over the hours 0..MaxHour of a two-day window.
MaxHour == 47

\* The most ld+json script blocks of a page.
MaxScripts == 2

\* The most elements of a JSON list (a top-level node list, an author list).
MaxNodes == 2

\* ------------------------------------------------------------------ paths

\* A source file below source_root: rel = dir/stem+ext.
SrcPath(dir, stem, ext) == [dir |-> dir, stem |-> stem, ext |-> ext]

\* The source tree the runs draw their candidates from, in Path sort order.
Universe ==
    << SrcPath(<<>>, "a", ".mht"),
       SrcPath(<<>>, "a", ".mhtml"),
       SrcPath(<<>>, "b", ".mht"),
       SrcPath(<<"sub">>, "a", ".mht") >>

UniverseIdx == 1..Len(Universe)

\* Path.with_suffix: the last suffix of the name replaced.
with_suffix(p, s) == [p EXCEPT !.ext = s]

\* --output-root given: output_root is its own tree; else source_root/_pdf_archive.
output_root(a) ==
    IF a.explicit THEN <<"output_root">> ELSE <<"source_root", "_pdf_archive">>

\* main, lines 420-428: the output PDF of a source file.
OutPdf(a, src) ==
    IF a.explicit
    THEN with_suffix([dir |-> output_root(a) \o src.dir, stem |-> src.stem, ext |-> src.ext], ".pdf")
    ELSE IF a.recurse
    THEN [dir |-> <<"source_root">> \o src.dir \o <<"_pdf_archive">>,
          stem |-> src.stem, ext |-> ".pdf"]
    ELSE with_suffix([dir |-> output_root(a), stem |-> src.stem, ext |-> src.ext], ".pdf")

\* main, line 465: the sidecar of an output PDF.
SidecarOf(o) == with_suffix(o, ".metadata.json")

\* main, line 444: the normalized temp copy of a .mht source.
TempNorm(src) ==
    with_suffix([dir |-> <<"tmp", "normalized-mhtml">> \o src.dir,
                 stem |-> src.stem, ext |-> src.ext], ".mhtml")

\* main, lines 404-408: glob("*") sees the direct children, rglob("*") the tree.
Candidates(a, tree) ==
    {i \in tree : a.recurse \/ Universe[i].dir = <<>>}

RECURSIVE SortedSeq(_)
\* files.sort(): the candidates in path order.
SortedSeq(S) ==
    IF S = {} THEN <<>>
    ELSE LET m == CHOOSE x \in S : \A y \in S : x <= y
         IN <<Universe[m]>> \o SortedSeq(S \ {m})

\* main, lines 408-411: the sorted candidates, cut to --max-files when it is > 0.
Targets(a, tree, max_files) ==
    LET sorted == SortedSeq(Candidates(a, tree))
    IN IF max_files > 0 /\ max_files < Len(sorted)
       THEN SubSeq(sorted, 1, max_files)
       ELSE sorted

\* ------------------------------------------------------------------ files

NoFile == [kind |-> "absent"]
EmptyFile == [kind |-> "empty"]
\* Who wrote a file: an earlier run, or this run for the file at loop index i.
EarlierRun == [run |-> "earlier"]
ByFile(i) == [run |-> "this", file |-> i]
Unstamped == [run |-> "none"]
\* A non-empty PDF: body says whose render wrote the pages, meta whose
\* metadata is stamped into it.
PdfFile(body, stamp) == [kind |-> "pdf", body |-> body, meta |-> stamp]

\* out_pdf.exists() and out_pdf.stat().st_size > 0
NonEmpty(f) == f.kind = "pdf"

AllOutputs(a) == {OutPdf(a, Universe[i]) : i \in UniverseIdx}

NoLocals == [out_pdf |-> <<>>, temp_norm |-> FALSE, exc |-> ""]


\* The batch driver at rest, for the specifications of the pure functions.
IdleBatch ==
    /\ args = [explicit |-> FALSE, recurse |-> FALSE, skipExisting |-> FALSE]
    /\ files = <<>>
    /\ targetCount = 0
    /\ idx = 1
    /\ pc = "idle"
    /\ cur = NoLocals
    /\ pdf = <<>>
    /\ sidecar = <<>>
    /\ norm = {}
    /\ profiles = {}
    /\ renders = {}
    /\ ok = 0
    /\ fail = 0
    /\ log = <<>>
    /\ exit = -1

\* ------------------------------------------------------------------ main

Line(kind, i, why) == [kind |-> kind, file |-> i, why |-> why]

\* Mutant of ExitStatus: a single failure does not count.
ExitStatusOffByOne(f) == IF f > 1 THEN 2 ELSE 0

\* main, line 478: return 2 if fail else 0
ExitStatus(f) == IF f > 0 THEN 2 ELSE 0

\* Mutant of SkipCond: the size test is dropped, an empty output is skipped too.
SkipCondNoSize(a, content) == a.skipExisting /\ content.kind # "absent"

\* main, line 431: the skip-if-exists test.
SkipCond(a, content) == a.skipExisting /\ NonEmpty(content)

\* main, line 450: the test that the render left a non-empty PDF.
RenderFailed(content) == ~NonEmpty(content)

\* Lines 418 and 477-478: the loop is exhausted, DONE is logged, main returns.
LogDone ==
    /\ pc = "for"
    /\ idx > Len(files)
    /\ log' = Append(log, Line("DONE", 0, ""))
    /\ exit' = ExitStatus(fail)
    /\ pc' = "exit"
    /\ UNCHANGED <<fieldVars, jsonVars, dateVars, pdfVars, args, files, targetCount, idx, cur, pdf, sidecar, norm,
                   profiles, renders, ok, fail>>

\* Lines 419-429: out_pdf is derived and its directory made. Both stand before
\* the try: an OSError of mkdir (or a ValueError of relative_to) leaves main.
DerivePath ==
    /\ pc = "for"
    /\ idx <= Len(files)
    /\ \E mkdir_ok \in BOOLEAN :
          IF mkdir_ok
          THEN /\ cur' = [NoLocals EXCEPT !.out_pdf = OutPdf(args, files[idx])]
               /\ pc' = "skipcheck"
               /\ exit' = exit
          ELSE /\ cur' = [NoLocals EXCEPT !.exc = "mkdir"]
               /\ pc' = "raised"
               /\ exit' = 1
    /\ UNCHANGED <<fieldVars, jsonVars, dateVars, pdfVars, args, files, targetCount, idx, pdf, sidecar, norm,
                   profiles, renders, ok, fail, log>>

\* Lines 431-433: SKIP existing, then continue.
SkipExisting ==
    /\ pc = "skipcheck"
    /\ SkipCond(args, pdf[cur.out_pdf])
    /\ log' = Append(log, Line("SKIP existing", idx, ""))
    /\ idx' = idx + 1
    /\ pc' = "for"
    /\ UNCHANGED <<fieldVars, jsonVars, dateVars, pdfVars, args, files, targetCount, cur, pdf, sidecar, norm,
                   profiles, renders, ok, fail, exit>>

\* Lines 435-438: not skipped, the try block is entered.
EnterTry ==
    /\ pc = "skipcheck"
    /\ ~SkipCond(args, pdf[cur.out_pdf])
    /\ pc' = "extract"
    /\ UNCHANGED <<fieldVars, jsonVars, dateVars, pdfVars, args, files, targetCount, idx, cur, pdf, sidecar, norm,
                   profiles, renders, ok, fail, log, exit>>

\* Lines 439-441: extract_from_mht(src); it raises on an unreadable source.
ExtractMeta ==
    /\ pc = "extract"
    /\ \E extracted \in BOOLEAN :
          IF extracted
          THEN pc' = "normalize" /\ cur' = cur
          ELSE pc' = "except" /\ cur' = [cur EXCEPT !.exc = "extract"]
    /\ UNCHANGED <<fieldVars, jsonVars, dateVars, pdfVars, args, files, targetCount, idx, pdf, sidecar, norm,
                   profiles, renders, ok, fail, log, exit>>

\* Lines 443-447: a .mht source is copied to a .mhtml temp file. temp_norm is
\* assigned before the copy, so it is set also when the copy raises.
Normalize ==
    /\ pc = "normalize"
    /\ IF files[idx].ext = ".mht"
       THEN \E copied \in BOOLEAN :
               IF copied
               THEN /\ norm' = norm \cup {TempNorm(files[idx])}
                    /\ cur' = [cur EXCEPT !.temp_norm = TRUE]
                    /\ pc' = "render"
               ELSE /\ norm' = norm
                    /\ cur' = [cur EXCEPT !.temp_norm = TRUE, !.exc = "copy"]
                    /\ pc' = "except"
       ELSE /\ norm' = norm
            /\ cur' = cur
            /\ pc' = "render"
    /\ UNCHANGED <<fieldVars, jsonVars, dateVars, pdfVars, args, files, targetCount, idx, pdf, sidecar,
                   profiles, renders, ok, fail, log, exit>>

\* What a browser run may do to the output path: write a PDF, write an empty
\* file, or write nothing (a crash, a load error).
BrowserOutcomes == {"wrote", "empty", "nothing"}

\* render_pdf, lines 291-310. The profile directory is made, the browser is
\* run, the directory is removed. subprocess.run raises when the browser
\* cannot be started, and rmtree is then not reached.
render_pdf ==
    /\ pc = "render"
    /\ \/ \E outcome \in BrowserOutcomes :
            /\ renders' = renders \cup {[file |-> idx, outcome |-> outcome]}
            /\ pdf' = [pdf EXCEPT ![cur.out_pdf] =
                          CASE outcome = "wrote" -> PdfFile(ByFile(idx), Unstamped)
                            [] outcome = "empty" -> EmptyFile
                            [] OTHER -> @]
            /\ profiles' = profiles
            /\ cur' = cur
            /\ pc' = "check"
       \/ /\ renders' = renders \cup {[file |-> idx, outcome |-> "not started"]}
          /\ pdf' = pdf
          /\ profiles' = profiles \cup {idx}
          /\ cur' = [cur EXCEPT !.exc = "browser"]
          /\ pc' = "except"
    /\ UNCHANGED <<fieldVars, jsonVars, dateVars, pdfVars, args, files, targetCount, idx, sidecar, norm,
                   ok, fail, log, exit>>

\* Lines 450-454: FAIL render when out_pdf is missing or empty, then continue
\* (through the finally block).
CheckOutput ==
    /\ pc = "check"
    /\ IF RenderFailed(pdf[cur.out_pdf])
       THEN /\ log' = Append(log, Line("FAIL render", idx, ""))
            /\ fail' = fail + 1
            /\ pc' = "finally"
       ELSE /\ log' = log
            /\ fail' = fail
            /\ pc' = "stamp"
    /\ UNCHANGED <<fieldVars, jsonVars, dateVars, pdfVars, args, files, targetCount, idx, cur, pdf, sidecar, norm,
                   profiles, renders, ok, exit>>

\* Lines 457-462: apply_pdf_metadata rewrites out_pdf with the metadata of the
\* current source; it raises on a PDF it cannot read or write.
StampMetadata ==
    /\ pc = "stamp"
    /\ \E stamped \in BOOLEAN :
          IF stamped
          THEN /\ pdf' = [pdf EXCEPT ![cur.out_pdf] = PdfFile(@.body, ByFile(idx))]
               /\ cur' = cur
               /\ pc' = "sidecar"
          ELSE /\ pdf' = pdf
               /\ cur' = [cur EXCEPT !.exc = "stamp"]
               /\ pc' = "except"
    /\ UNCHANGED <<fieldVars, jsonVars, dateVars, pdfVars, args, files, targetCount, idx, sidecar, norm,
                   profiles, renders, ok, fail, log, exit>>

\* Lines 465-466: the sidecar is written.
WriteSidecar ==
    /\ pc = "sidecar"
    /\ \E written \in BOOLEAN :
          IF written
          THEN /\ sidecar' = [sidecar EXCEPT ![SidecarOf(cur.out_pdf)] = ByFile(idx)]
               /\ cur' = cur
               /\ pc' = "logok"
          ELSE /\ sidecar' = sidecar
               /\ cur' = [cur EXCEPT !.exc = "sidecar"]
               /\ pc' = "except"
    /\ UNCHANGED <<fieldVars, jsonVars, dateVars, pdfVars, args, files, targetCount, idx, pdf, norm,
                   profiles, renders, ok, fail, log, exit>>

\* Lines 468-469.
LogOk ==
    /\ pc = "logok"
    /\ log' = Append(log, Line("OK", idx, ""))
    /\ ok' = ok + 1
    /\ pc' = "finally"
    /\ UNCHANGED <<fieldVars, jsonVars, dateVars, pdfVars, args, files, targetCount, idx, cur, pdf, sidecar, norm,
                   profiles, renders, fail, exit>>

\* Lines 470-472: except Exception.
Except ==
    /\ pc = "except"
    /\ fail' = fail + 1
    /\ log' = Append(log, Line("FAIL error", idx, cur.exc))
    /\ pc' = "finally"
    /\ UNCHANGED <<fieldVars, jsonVars, dateVars, pdfVars, args, files, targetCount, idx, cur, pdf, sidecar, norm,
                   profiles, renders, ok, exit>>

\* Lines 473-475: the temp copy is unlinked; an OSError of unlink leaves main.
Finally ==
    /\ pc = "finally"
    /\ IF cur.temp_norm /\ TempNorm(files[idx]) \in norm
       THEN \E unlinked \in BOOLEAN :
               IF unlinked
               THEN /\ norm' = norm \ {TempNorm(files[idx])}
                    /\ idx' = idx + 1
                    /\ pc' = "for"
                    /\ cur' = cur
                    /\ exit' = exit
               ELSE /\ norm' = norm
                    /\ idx' = idx
                    /\ pc' = "raised"
                    /\ cur' = [cur EXCEPT !.exc = "unlink"]
                    /\ exit' = 1
       ELSE /\ norm' = norm
            /\ idx' = idx + 1
            /\ pc' = "for"
            /\ cur' = cur
            /\ exit' = exit
    /\ UNCHANGED <<fieldVars, jsonVars, dateVars, pdfVars, args, files, targetCount, pdf, sidecar,
                   profiles, renders, ok, fail, log>>

Next ==
    \/ LogDone
    \/ DerivePath
    \/ SkipExisting
    \/ EnterTry
    \/ ExtractMeta
    \/ Normalize
    \/ render_pdf
    \/ CheckOutput
    \/ StampMetadata
    \/ WriteSidecar
    \/ LogOk
    \/ Except
    \/ Finally

\* ------------------------------------------------------------------ text

\* Optional[str]: None, or a string as the sequence of its characters.
None == [has |-> FALSE]
Some(str) == [has |-> TRUE, str |-> str]

SP == " "
TAB == "\t"
Alphabet == {SP, TAB, "a"}

\* What \s matches.
IsSpace(c) == c \in {SP, TAB}

\* All strings of at most n characters.
StrsUpTo(n) == UNION {[1..k -> Alphabet] : k \in 0..n}

RECURSIVE lstrip(_)
lstrip(str) ==
    IF str # <<>> /\ IsSpace(Head(str)) THEN lstrip(Tail(str)) ELSE str

RECURSIVE rstrip(_)
rstrip(str) ==
    IF str # <<>> /\ IsSpace(str[Len(str)])
    THEN rstrip(SubSeq(str, 1, Len(str) - 1))
    ELSE str

\* str.strip()
strip(str) == rstrip(lstrip(str))

RECURSIVE sub_ws(_)
\* re.sub(r"\s+", " ", value): every maximal whitespace run becomes one space.
sub_ws(str) ==
    IF str = <<>> THEN <<>>
    ELSE IF IsSpace(Head(str))
    THEN <<SP>> \o sub_ws(lstrip(Tail(str)))
    ELSE <<Head(str)>> \o sub_ws(Tail(str))

\* clean_text, lines 92-96.
clean_text(value) ==
    IF ~value.has \/ value.str = <<>> THEN None
    ELSE LET cleaned == strip(sub_ws(value.str))
         IN IF cleaned = <<>> THEN None ELSE Some(cleaned)

RECURSIVE first_nonempty_raw(_)
\* Mutant of first_nonempty: a candidate is tested without being cleaned.
first_nonempty_raw(values) ==
    IF values = <<>> THEN None
    ELSE IF Head(values).has /\ Head(values).str # <<>> THEN Head(values)
    ELSE first_nonempty_raw(Tail(values))

RECURSIVE first_nonempty(_)
\* first_nonempty, lines 99-105: the first candidate that is still truthy
\* after clean_text. Every candidate here is a str or None.
first_nonempty(values) ==
    IF values = <<>> THEN None
    ELSE LET v == clean_text(Head(values))
         IN IF v.has THEN v ELSE first_nonempty(Tail(values))

\* ------------------------------------------------------------------ extract_from_mht

\* The candidate sources extract_from_mht reads: meta tags by attribute, the
\* canonical link, the <title> text, the values extract_json_ld returned, the
\* Content-Location of the HTML part and the top-level headers.
Sources ==
    { "property=og:title", "name=twitter:title", "name=title", "json_ld.headline",
      "title.string",
      "name=author", "property=article:author", "name=parsely-author", "name=byline",
      "json_ld.author",
      "property=article:published_time", "name=pubdate", "name=publishdate",
      "name=date", "property=og:published_time", "json_ld.datePublished",
      "header_date",
      "canonical_href", "property=og:url", "json_ld.url", "part_url", "header_url",
      "name=keywords", "property=article:tag",
      "property=article:publisher", "name=publisher", "json_ld.publisher",
      "name=description", "property=og:description" }

\* Lines 203-209.
Title(p) ==
    first_nonempty(<< p["property=og:title"], p["name=twitter:title"], p["name=title"],
                      p["json_ld.headline"], p["title.string"] >>)

\* Lines 211-217.
Author(p) ==
    first_nonempty(<< p["name=author"], p["property=article:author"],
                      p["name=parsely-author"], p["name=byline"], p["json_ld.author"] >>)

\* Lines 219-227.
PublishedRaw(p) ==
    first_nonempty(<< p["property=article:published_time"], p["name=pubdate"],
                      p["name=publishdate"], p["name=date"],
                      p["property=og:published_time"], p["json_ld.datePublished"],
                      p["header_date"] >>)

\* Lines 232-238.
SourceUrl(p) ==
    first_nonempty(<< p["canonical_href"], p["property=og:url"], p["json_ld.url"],
                      p["part_url"], p["header_url"] >>)

\* Lines 240-243.
Keywords(p) ==
    first_nonempty(<< p["name=keywords"], p["property=article:tag"] >>)

\* Lines 245-249.
Publisher(p) ==
    first_nonempty(<< p["property=article:publisher"], p["name=publisher"],
                      p["json_ld.publisher"] >>)

\* Lines 256-259.
Desc(p) ==
    first_nonempty(<< p["name=description"], p["property=og:description"] >>)

\* The fields in the order extract_from_mht resolves them.
FieldOrder == <<"title", "author", "published_raw", "source_url", "keywords",
                "publisher", "subject">>

Pending == [pending |-> TRUE]

\* The other functions at rest.
IdleFields ==
    /\ page = <<>>
    /\ meta = <<>>
    /\ fpc = 0

IdleJsonLd ==
    /\ scripts = <<>>
    /\ out = <<>>
    /\ spc = 0

IdlePdf ==
    /\ pmeta = <<>>
    /\ info = <<>>
    /\ xmp = <<>>
    /\ ppc = "idle"

IdleDate ==
    /\ dt_str = <<>>
    /\ local_offset = 0
    /\ published_date_iso = <<>>
    /\ creation_date = <<>>
    /\ dpc = "idle"

\* Values a source is drawn from next to a free one: absent, blank, two texts.
RefValues == {None, Some(<<TAB>>), Some(<<"a">>), Some(<<"b", SP, SP, "b">>)}

\* A page has at most two sources present: one holds any string of up to
\* MaxStrLen characters, the other a reference value.
InitFields ==
    /\ IdleBatch
    /\ \E s1 \in Sources, s2 \in Sources, v1 \in StrsUpTo(MaxStrLen), v2 \in RefValues :
          page = [s \in Sources |->
                    IF s = s1 THEN Some(v1) ELSE IF s = s2 THEN v2 ELSE None]
    /\ meta = [f \in {FieldOrder[k] : k \in 1..Len(FieldOrder)} |-> Pending]
    /\ fpc = 1
    /\ IdleJsonLd
    /\ IdleDate
    /\ IdlePdf

Resolve(field, value) ==
    /\ fpc <= Len(FieldOrder)
    /\ FieldOrder[fpc] = field
    /\ meta' = [meta EXCEPT ![field] = value]
    /\ fpc' = fpc + 1
    /\ UNCHANGED <<page, batchVars, jsonVars, dateVars, pdfVars>>

ResolveTitle == Resolve("title", Title(page))
ResolveAuthor == Resolve("author", Author(page))
ResolvePublished == Resolve("published_raw", PublishedRaw(page))
ResolveSourceUrl == Resolve("source_url", SourceUrl(page))
ResolveKeywords == Resolve("keywords", Keywords(page))
ResolvePublisher == Resolve("publisher", Publisher(page))
ResolveDesc == Resolve("subject", Desc(page))

NextFields ==
    \/ ResolveTitle
    \/ ResolveAuthor
    \/ ResolvePublished
    \/ ResolveSourceUrl
    \/ ResolveKeywords
    \/ ResolvePublisher
    \/ ResolveDesc

SpecFields == InitFields /\ [][NextFields]_vars

\* ------------------------------------------------------------------ extract_json_ld

\* JSON values: a key that is missing (dict.get gives None), a number, a
\* string, an object, a list.
JAbsent == [t |-> "absent"]
JNum == [t |-> "number"]
JStr(str) == [t |-> "str", str |-> str]
JDict(d) == [t |-> "dict", d |-> d]
JList(items) == [t |-> "list", items |-> items]

\* dict.get(key)
Get(node, key) == IF key \in DOMAIN node.d THEN node.d[key] ELSE JAbsent

JsonKeys == {"headline", "datePublished", "url", "publisher", "author"}

RECURSIVE Dedup(_, _)
\* dict.fromkeys(names): the first occurrence of each name, in order.
Dedup(names, seen) ==
    IF names = <<>> THEN <<>>
    ELSE IF Head(names) \in seen THEN Dedup(Tail(names), seen)
    ELSE <<Head(names)>> \o Dedup(Tail(names), seen \cup {Head(names)})

RECURSIVE Join(_)
\* ", ".join(names)
Join(names) ==
    IF names = <<>> THEN <<>>
    ELSE IF Len(names) = 1 THEN Head(names)
    ELSE Head(names) \o <<",", SP>> \o Join(Tail(names))

RECURSIVE AuthorNames(_)
\* Lines 140-145: the names of an author list.
AuthorNames(items) ==
    IF items = <<>> THEN <<>>
    ELSE LET a == Head(items)
             name == IF a.t = "dict" THEN Get(a, "name") ELSE JAbsent
         IN (IF a.t = "dict" /\ name.t = "str" THEN <<name.str>>
             ELSE IF a.t = "str" THEN <<a.str>>
             ELSE <<>>) \o AuthorNames(Tail(items))

\* Lines 123-149: the value a node offers for a key, None when the node has no
\* value of the accepted shape.
Offered(node, key) ==
    LET v == Get(node, key)
    IN CASE key \in {"headline", "datePublished", "url"} ->
              IF v.t = "str" THEN Some(v.str) ELSE None
         [] key = "publisher" ->
              IF v.t = "dict" /\ Get(v, "name").t = "str"
              THEN Some(Get(v, "name").str) ELSE None
         [] key = "author" ->
              IF v.t = "dict" /\ Get(v, "name").t = "str" THEN Some(Get(v, "name").str)
              ELSE IF v.t = "list"
              THEN IF AuthorNames(v.items) # <<>>
                   THEN Some(Join(Dedup(AuthorNames(v.items), {})))
                   ELSE None
              ELSE IF v.t = "str" THEN Some(v.str)
              ELSE None

\* out.get(key) is truthy: the key is set to a non-empty string.
Truthy(v) == v.has /\ v.str # <<>>

\* Lines 121-149 for one node: each key not yet truthy in out takes the value
\* the node offers.
UpdateFromNode(o, node) ==
    IF node.t # "dict" THEN o
    ELSE [key \in JsonKeys |->
            IF ~Truthy(o[key]) /\ Offered(node, key).has
            THEN Offered(node, key)
            ELSE o[key]]

RECURSIVE UpdateFromNodes(_, _)
\* Line 120: for n in nodes.
UpdateFromNodes(o, nodes) ==
    IF nodes = <<>> THEN o
    ELSE UpdateFromNodes(UpdateFromNode(o, Head(nodes)), Tail(nodes))

\* Lines 112-119: a script block without text or with text that json.loads
\* rejects is passed over; a payload that is no list is a list of one node.
NodesOf(script) ==
    IF script.text # "json" THEN <<>>
    ELSE IF script.payload.t = "list" THEN script.payload.items
    ELSE <<script.payload>>

\* The strings JSON-LD values are drawn from.
JsonStrs == {<<>>, <<SP>>, <<"a">>, <<"b">>}

\* All sequences over S of at most n elements.
SeqsUpTo(S, n) == UNION {[1..k -> S] : k \in 0..n}

\* The values a node may carry under a key.
JsonValues(key) ==
    CASE key \in {"headline", "datePublished", "url"} ->
           {JNum} \cup {JStr(x) : x \in JsonStrs}
      [] key = "publisher" ->
           {JStr(<<"a">>), JDict(<<>>)}
              \cup {JDict([name |-> JStr(x)]) : x \in JsonStrs}
      [] key = "author" ->
           {JNum, JDict(<<>>), JStr(<<>>), JStr(<<SP>>), JStr(<<"a">>),
            JDict([name |-> JStr(<<SP>>)]), JDict([name |-> JStr(<<"b">>)])}
              \cup {JList(l) : l \in SeqsUpTo({JStr(<<"a">>),
                                               JDict([name |-> JStr(<<SP>>)])},
                                              MaxNodes)}

\* The nodes about one key: objects holding the key or nothing, and a number.
NodesAbout(key) ==
    {JNum, JDict(<<>>)} \cup {JDict(key :> v) : v \in JsonValues(key)}

\* The script blocks about one key.
ScriptsAbout(key) ==
    {[text |-> "empty"], [text |-> "invalid"]}
       \cup {[text |-> "json", payload |-> n] : n \in NodesAbout(key)}
       \cup {[text |-> "json", payload |-> JList(l)] :
                l \in SeqsUpTo(NodesAbout(key), MaxNodes)}

InitJsonLd ==
    /\ IdleBatch
    /\ IdleFields
    /\ IdleDate
    /\ IdlePdf
    /\ \E key \in JsonKeys : scripts \in SeqsUpTo(ScriptsAbout(key), MaxScripts)
    /\ out = [key \in JsonKeys |-> None]
    /\ spc = 1

\* Lines 111-149: one turn of the loop over the script blocks.
ProcessScript ==
    /\ spc >= 1
    /\ spc <= Len(scripts)
    /\ out' = UpdateFromNodes(out, NodesOf(scripts[spc]))
    /\ spc' = spc + 1
    /\ UNCHANGED <<scripts, fieldVars, batchVars, dateVars, pdfVars>>

NextJsonLd == ProcessScript

SpecJsonLd == InitJsonLd /\ [][NextJsonLd]_vars

\* ------------------------------------------------------------------ dates

\* A date string as dateutil reads it: a wall-clock time (hours into the
\* window) and a zone designator: none, an abbreviation, or a numeric offset.
\* "BST" stands for an abbreviation tzinfos does not hold, "garbage" for a
\* string dateutil rejects.
Abbreviations == {"UTC", "GMT", "EST", "EDT", "CST", "CDT", "MST", "MDT", "PST", "PDT"}
NumericZones == {"+05:00", "-03:00", "Z"}
Zones == {"none", "BST"} \cup Abbreviations \cup NumericZones

\* parse_dt, lines 74-85: tzinfos.
tzinfos(abbr) ==
    CASE abbr \in {"UTC", "GMT"} -> 0
      [] abbr = "EST" -> -5
      [] abbr = "EDT" -> -4
      [] abbr = "CST" -> -6
      [] abbr = "CDT" -> -5
      [] abbr = "MST" -> -7
      [] abbr = "MDT" -> -6
      [] abbr = "PST" -> -8
      [] abbr = "PDT" -> -7

NumericOffset(zone) ==
    CASE zone = "+05:00" -> 5
      [] zone = "-03:00" -> -3
      [] zone = "Z" -> 0

Naive(wall) == [wall |-> wall, aware |-> FALSE]
Aware(wall, off) == [wall |-> wall, aware |-> TRUE, off |-> off]
NoDate == [none |-> TRUE]

\* parse_dt, lines 71-89: None for an empty or rejected string; an aware
\* datetime when the string names an offset or an abbreviation of tzinfos; a
\* naive datetime otherwise.
parse_dt(str) ==
    IF str.zone = "garbage" THEN NoDate
    ELSE IF str.zone \in Abbreviations THEN Aware(str.wall, tzinfos(str.zone))
    ELSE IF str.zone \in NumericZones THEN Aware(str.wall, NumericOffset(str.zone))
    ELSE Naive(str.wall)

\* datetime.astimezone(timezone.utc): a naive datetime is taken to be in the
\* machine's local time zone.
astimezone_utc(dt, machine) ==
    IF dt.aware THEN Aware(dt.wall - dt.off, 0) ELSE Aware(dt.wall - machine, 0)

\* datetime.isoformat(): date, time of day and offset.
isoformat(dt) == [day |-> dt.wall \div 24, hour |-> dt.wall % 24, off |-> dt.off]

\* datetime.fromisoformat()
fromisoformat(iso) == Aware(iso.day * 24 + iso.hour, iso.off)

\* Lines 261-262: published_date_iso.
PublishedDateIso(str, machine) ==
    LET dt == parse_dt(str)
    IN IF dt = NoDate THEN NoDate ELSE isoformat(astimezone_utc(dt, machine))

\* pdf_dt_from_iso, lines 285-288: D:YYYYMMDDHHMMSS+00'00' of the UTC time.
pdf_dt_from_iso(iso) ==
    LET dt_utc == astimezone_utc(fromisoformat(iso), 0)
    IN <<"D:", dt_utc.wall \div 24, dt_utc.wall % 24, "+00'00'">>

\* The offsets of the machines the script may run on.
MachineOffsets == {-8, -5, 0, 1, 9}

InitDate ==
    /\ IdleBatch
    /\ IdleFields
    /\ IdleJsonLd
    /\ IdlePdf
    /\ dt_str \in [wall : 0..MaxHour, zone : Zones \cup {"garbage"}]
    /\ local_offset \in MachineOffsets
    /\ published_date_iso = <<>>
    /\ creation_date = <<>>
    /\ dpc = "parse"

\* Lines 261-262.
NormalizeDate ==
    /\ dpc = "parse"
    /\ published_date_iso' = PublishedDateIso(dt_str, local_offset)
    /\ dpc' = IF published_date_iso' = NoDate THEN "done" ELSE "stamp"
    /\ UNCHANGED <<dt_str, local_offset, creation_date, batchVars, fieldVars, jsonVars, pdfVars>>

\* apply_pdf_metadata, line 336, for an extracted date.
StampCreationDate ==
    /\ dpc = "stamp"
    /\ creation_date' = pdf_dt_from_iso(published_date_iso)
    /\ dpc' = "done"
    /\ UNCHANGED <<dt_str, local_offset, published_date_iso, batchVars, fieldVars, jsonVars, pdfVars>>

NextDate == NormalizeDate \/ StampCreationDate

SpecDate == InitDate /\ [][NextDate]_vars

\* ------------------------------------------------------------------ apply_pdf_metadata

\* Line 327: the subject is cut to this many characters.
SubjectLimit == 2000

Digits == <<"0", "1", "2", "3", "4", "5", "6", "7", "8", "9">>

\* The characters of an ISO timestamp: day, T, two-digit hour, offset.
IsoChars(iso) ==
    <<Digits[iso.day + 1], "T", Digits[(iso.hour \div 10) + 1], Digits[(iso.hour % 10) + 1],
      "+", "0", "0", ":", "0", "0">>

SourceUrlLabel == <<"S", "o", "u", "r", "c", "e", " ", "U", "R", "L", ":", " ">>
PublishedLabel == <<"P", "u", "b", "l", "i", "s", "h", "e", "d", ":", " ">>
Bar == <<" ", "|", " ">>
Unknown == <<"U", "n", "k", "n", "o", "w", "n">>

\* value or default, for an Optional[str]
OrElse(v, default) == IF Truthy(v) THEN v.str ELSE default

RECURSIVE JoinWith(_, _)
\* sep.join(parts)
JoinWith(sep, parts) ==
    IF parts = <<>> THEN <<>>
    ELSE IF Len(parts) = 1 THEN Head(parts)
    ELSE Head(parts) \o sep \o JoinWith(sep, Tail(parts))

\* str[:n]
Take(str, n) == IF Len(str) <= n THEN str ELSE SubSeq(str, 1, n)

\* Lines 320-327: the subject. published_iso is never empty, so there is
\* always a Published part.
Subject(m, published_iso) ==
    Take(JoinWith(Bar,
            (IF Truthy(m.subject) THEN <<m.subject.str>> ELSE <<>>)
            \o (IF Truthy(m.source_url) THEN <<SourceUrlLabel \o m.source_url.str>> ELSE <<>>)
            \o <<PublishedLabel \o IsoChars(published_iso)>>),
         SubjectLimit)

RECURSIVE Split(_, _)
\* str.split(sep) for a one-character separator.
Split(str, sep) ==
    IF \A i \in 1..Len(str) : str[i] # sep THEN <<str>>
    ELSE LET at == CHOOSE i \in 1..Len(str) :
                      str[i] = sep /\ \A j \in 1..(i - 1) : str[j] # sep
         IN <<SubSeq(str, 1, at - 1)>> \o Split(SubSeq(str, at + 1, Len(str)), sep)

RECURSIVE StripAll(_)
\* Line 356: [k.strip() for k in parts if k.strip()]
StripAll(parts) ==
    IF parts = <<>> THEN <<>>
    ELSE (IF strip(Head(parts)) # <<>> THEN <<strip(Head(parts))>> ELSE <<>>)
         \o StripAll(Tail(parts))

\* Line 317: the extracted date, else the source file's ctime.
PublishedIso(m) ==
    IF m.published_date_iso = NoDate THEN m.ctime_iso ELSE m.published_date_iso

\* Lines 329-345: the info dictionary.
InfoDict(m) ==
    [ Title |-> OrElse(m.title, m.stem),
      Author |-> OrElse(m.author, Unknown),
      Subject |-> Subject(m, PublishedIso(m)),
      Keywords |-> OrElse(m.keywords, <<>>),
      Creator |-> "mht2pdf metadata pipeline",
      Producer |-> "mht2pdf + pypdf",
      CreationDate |-> pdf_dt_from_iso(PublishedIso(m)),
      ModDate |-> pdf_dt_from_iso(m.converted_iso),
      SourceURL |-> OrElse(m.source_url, <<>>),
      Publisher |-> OrElse(m.publisher, <<>>),
      Language |-> OrElse(m.language, <<>>) ]

\* Mutant of XmpPacket: dc_creator has no "Unknown" fallback.
XmpPacketNoFallback(m) ==
    [ dc_title |-> [x_default |-> OrElse(m.title, m.stem)],
      dc_creator |-> IF Truthy(m.author) THEN <<m.author.str>> ELSE <<>>,
      dc_identifier |-> IF Truthy(m.source_url) THEN <<m.source_url.str>> ELSE <<>>,
      dc_description |-> [x_default |-> Subject(m, PublishedIso(m))],
      dc_date |-> <<PublishedIso(m)>>,
      xmp_creatortool |-> "mht2pdf metadata pipeline" ]
    @@ (IF Truthy(m.keywords)
        THEN [dc_subject |-> StripAll(Split(m.keywords.str, ","))] ELSE <<>>)
    @@ (IF Truthy(m.language) THEN [dc_language |-> <<m.language.str>>] ELSE <<>>)
    @@ (IF Truthy(m.publisher) THEN [dc_publisher |-> <<m.publisher.str>>] ELSE <<>>)

\* Lines 349-361: the XMP packet; dc_subject, dc_language and dc_publisher are
\* set only when the field is present.
XmpPacket(m) ==
    [ dc_title |-> [x_default |-> OrElse(m.title, m.stem)],
      dc_creator |-> IF Truthy(m.author) THEN <<m.author.str>> ELSE <<Unknown>>,
      dc_identifier |-> IF Truthy(m.source_url) THEN <<m.source_url.str>> ELSE <<>>,
      dc_description |-> [x_default |-> Subject(m, PublishedIso(m))],
      dc_date |-> <<PublishedIso(m)>>,
      xmp_creatortool |-> "mht2pdf metadata pipeline" ]
    @@ (IF Truthy(m.keywords)
        THEN [dc_subject |-> StripAll(Split(m.keywords.str, ","))] ELSE <<>>)
    @@ (IF Truthy(m.language) THEN [dc_language |-> <<m.language.str>>] ELSE <<>>)
    @@ (IF Truthy(m.publisher) THEN [dc_publisher |-> <<m.publisher.str>>] ELSE <<>>)

\* A text of n characters.
Text(n) == [i \in 1..n |-> "x"]

OptionalOf(S) == {None} \cup {Some(x) : x \in S}

\* The metadata apply_pdf_metadata is drawn from: every field absent or
\* present, descriptions below and above the subject limit, keyword lists with
\* blanks and empty items.
MetaSet ==
    [ title : OptionalOf({<<"t">>}),
      author : OptionalOf({<<"w">>}),
      subject : OptionalOf({<<"d">>, Text(SubjectLimit - 20), Text(SubjectLimit + 1)}),
      source_url : OptionalOf({<<"u">>}),
      keywords : OptionalOf({<<"k">>, <<"k", ",", "l">>, <<"k", " ", ",", ",", " ", "l", " ", "m">>,
                             <<",">>}),
      language : OptionalOf({<<"e", "n">>}),
      publisher : OptionalOf({<<"p">>}),
      published_date_iso : {NoDate, isoformat(Aware(30, 0))},
      ctime_iso : {isoformat(Aware(5, 0))},
      converted_iso : {isoformat(Aware(47, 0))},
      stem : {<<"s">>} ]

InitPdf ==
    /\ IdleBatch
    /\ IdleFields
    /\ IdleJsonLd
    /\ IdleDate
    /\ pmeta \in MetaSet
    /\ info = <<>>
    /\ xmp = <<>>
    /\ ppc = "apply"

\* apply_pdf_metadata, lines 313-367.
apply_pdf_metadata ==
    /\ ppc = "apply"
    /\ info' = InfoDict(pmeta)
    /\ xmp' = XmpPacket(pmeta)
    /\ ppc' = "done"
    /\ UNCHANGED <<pmeta, batchVars, fieldVars, jsonVars, dateVars>>

NextPdf == apply_pdf_metadata

SpecPdf == InitPdf /\ [][NextPdf]_vars

\* ------------------------------------------------------------------ Init

ArgSet == [explicit : BOOLEAN, recurse : BOOLEAN, skipExisting : BOOLEAN]

\* What an earlier run may have left at an output path.
StaleContents == {NoFile, EmptyFile, PdfFile(EarlierRun, EarlierRun)}

InitBatch ==
    /\ IdleFields
    /\ IdleJsonLd
    /\ IdleDate
    /\ IdlePdf
    /\ args \in ArgSet
    /\ \E tree \in SUBSET UniverseIdx, max_files \in 0..MaxFiles :
          /\ Cardinality(tree) <= MaxFiles
          /\ files = Targets(args, tree, max_files)
    /\ targetCount = Len(files)
    /\ idx = 1
    /\ pc = "for"
    /\ cur = NoLocals
    /\ pdf \in [AllOutputs(args) -> StaleContents]
    /\ \A o \in AllOutputs(args) :
          ~(\E i \in 1..Len(files) : OutPdf(args, files[i]) = o) => pdf[o] = NoFile
    /\ sidecar = [sc \in {SidecarOf(o) : o \in AllOutputs(args)} |->
                    IF \E o \in AllOutputs(args) : SidecarOf(o) = sc /\ NonEmpty(pdf[o])
                    THEN EarlierRun ELSE NoFile]
    /\ norm = {}
    /\ profiles = {}
    /\ renders = {}
    /\ ok = 0
    /\ fail = 0
    /\ log = <<>>
    /\ exit = -1

Init == InitBatch

Spec == Init /\ [][Next]_vars


\* ------------------------------------------------------------------ claims on main

OutcomeKinds == {"SKIP existing", "OK", "FAIL render", "FAIL error"}

\* The lines of the given kinds that the log holds for the file at loop index i.
Lines(kinds, i) == {k \in 1..Len(log) : log[k].file = i /\ log[k].kind \in kinds}

\* The number of log lines of the given kinds, over all files.
CountLines(kinds) == Cardinality({k \in 1..Len(log) : log[k].kind \in kinds})

\* render_pdf was called for the file at loop index i.
Rendered(i) == \E r \in renders : r.file = i

Terminated == pc \in {"exit", "raised"}

\* C2: once main has ended, it ended by logging DONE, and every targeted file
\* has exactly one outcome line (SKIP existing, OK, FAIL render or FAIL error).
C2_CatchLogContinue ==
    Terminated =>
        /\ pc = "exit"
        /\ CountLines({"DONE"}) = 1
        /\ \A i \in 1..Len(files) : Cardinality(Lines(OutcomeKinds, i)) = 1

\* C3 (as amended): at the skip check, when --skip-existing is set and the
\* output PDF exists and is non-empty, the step logs SKIP existing and changes
\* nothing else (no render, PDFs, sidecars, temp copies, profile directories
\* and both counters as they were) and the loop moves on; otherwise the step
\* logs nothing and enters per-file processing. A file that was not skipped
\* and whose iteration is over had render_pdf called for it, unless metadata
\* extraction or the normalized copy raised first, and then it is logged
\* FAIL error.
C3_SkipIfExists ==
    /\ [][ (pc = "skipcheck" /\ args.skipExisting /\ pdf[cur.out_pdf].kind = "pdf")
            => /\ log' = Append(log, Line("SKIP existing", idx, ""))
               /\ UNCHANGED <<pdf, sidecar, norm, profiles, renders, ok, fail>>
               /\ idx' = idx + 1
               /\ pc' = "for" ]_vars
    /\ [][ (pc = "skipcheck" /\ ~(args.skipExisting /\ pdf[cur.out_pdf].kind = "pdf"))
            => /\ pc' = "extract"
               /\ UNCHANGED <<log, idx, pdf, sidecar>> ]_vars
    /\ [](\A i \in 1..Len(files) :
            (idx > i /\ Lines({"SKIP existing"}, i) = {})
            => \/ Rendered(i)
               \/ \E k \in Lines({"FAIL error"}, i) : log[k].why \in {"extract", "copy"})

\* C3 witness: a file was skipped over its existing PDF, and another file of
\* the same run, whose output was missing, was rendered.
C3_Witness ==
    /\ args.skipExisting
    /\ \E i, j \in 1..Len(files) :
          /\ Lines({"SKIP existing"}, i) # {}
          /\ pdf[OutPdf(args, files[i])] = PdfFile(EarlierRun, EarlierRun)
          /\ Rendered(j)
          /\ idx > j /\ idx > i

\* C3 as stated: a file that is not skipped (the flag is not set, or the output
\* is missing or empty) is always rendered.
C3_NotSkippedAlwaysRendered ==
    \A i \in 1..Len(files) :
        (idx > i /\ Lines({"SKIP existing"}, i) = {}) => Rendered(i)

\* C4: when main has logged DONE, ok is the number of OK lines, fail the
\* number of FAIL render and FAIL error lines, ok + fail + skipped is the
\* logged target count, and the exit status is 2 iff fail > 0, else 0.
C4_Counts ==
    pc = "exit" =>
        /\ ok = CountLines({"OK"})
        /\ fail = CountLines({"FAIL render", "FAIL error"})
        /\ ok + fail + CountLines({"SKIP existing"}) = targetCount
        /\ (exit = 2) <=> (fail > 0)
        /\ (fail = 0) => exit = 0
        /\ (targetCount = 0) => exit = 0

\* C4 witness: a finished batch with an OK, a failed and a skipped file.
C4_Witness ==
    /\ pc = "exit"
    /\ ok > 0 /\ fail > 0 /\ CountLines({"SKIP existing"}) > 0
    /\ exit = 2

\* C6: no profile directory of a render_pdf call that has ended exists.
C6_ProfileDisposable ==
    \A r \in renders : r.file \notin profiles

\* C9: a file is logged OK only if the browser run for it wrote a non-empty
\* PDF; when that run wrote no PDF the file is logged FAIL render and counted
\* in fail, and is neither stamped nor given a sidecar.
C9_OkOnlyIfRendered ==
    \A i \in 1..Len(files) :
        /\ Lines({"OK"}, i) # {}
              => [file |-> i, outcome |-> "wrote"] \in renders
        /\ (\E r \in renders : r.file = i /\ r.outcome \in {"empty", "nothing"})
              => /\ idx > i => Lines({"FAIL render"}, i) # {}
                 /\ pdf[OutPdf(args, files[i])].kind = "pdf"
                       => pdf[OutPdf(args, files[i])].meta # ByFile(i)
                 /\ sidecar[SidecarOf(OutPdf(args, files[i]))] # ByFile(i)

\* C10: the output PDF and the sidecar derived for the current file differ
\* from those of every file the run has dealt with before.
C10_InjectiveOutputs ==
    pc \notin {"for", "raised", "exit"} =>
        \A i \in 1..(idx - 1) :
            /\ cur.out_pdf # OutPdf(args, files[i])
            /\ SidecarOf(cur.out_pdf) # SidecarOf(OutPdf(args, files[i]))

\* ------------------------------------------------------------------ claims on field resolution

\* The priority order of each field's candidates, highest first.
Priority(field) ==
    CASE field = "title" ->
           << "property=og:title", "name=twitter:title", "name=title",
              "json_ld.headline", "title.string" >>
      [] field = "author" ->
           << "name=author", "property=article:author", "name=parsely-author",
              "name=byline", "json_ld.author" >>
      [] field = "published_raw" ->
           << "property=article:published_time", "name=pubdate", "name=publishdate",
              "name=date", "property=og:published_time", "json_ld.datePublished",
              "header_date" >>
      [] field = "source_url" ->
           << "canonical_href", "property=og:url", "json_ld.url", "part_url",
              "header_url" >>
      [] field = "keywords" -> << "name=keywords", "property=article:tag" >>
      [] field = "publisher" ->
           << "property=article:publisher", "name=publisher", "json_ld.publisher" >>
      [] field = "subject" -> << "name=description", "property=og:description" >>

\* A candidate that is present and not only whitespace.
NonBlank(v) == v.has /\ \E i \in 1..Len(v.str) : ~IsSpace(v.str[i])

\* The whitespace-normalized form of a non-blank string, position by position:
\* its words, in order, with one space between two words.
Normalized(str) ==
    LET solid(i) == ~IsSpace(str[i])
        wordStart(i) == solid(i) /\ (i = 1 \/ IsSpace(str[i - 1]))
        place(i) == Cardinality({j \in 1..i : solid(j)})
                    + Cardinality({j \in 1..i : wordStart(j)}) - 1
        n == place(Len(str))
    IN [q \in 1..n |->
          IF \E i \in 1..Len(str) : solid(i) /\ place(i) = q
          THEN str[CHOOSE i \in 1..Len(str) : solid(i) /\ place(i) = q]
          ELSE SP]

\* C1: every resolved field holds the normalized value of the first candidate,
\* in the field's priority order, that is not blank, and None when every
\* candidate is absent or blank.
C1_FirstNonBlankByPriority ==
    \A k \in 1..Len(FieldOrder) :
        k < fpc =>
            LET field == FieldOrder[k]
                order == Priority(field)
                live == {n \in 1..Len(order) : NonBlank(page[order[n]])}
            IN IF live = {}
               THEN meta[field] = None
               ELSE LET first == CHOOSE n \in live : \A m \in live : n <= m
                    IN meta[field] = Some(Normalized(page[order[first]].str))

\* C1 witness: og:title is blank, twitter:title needs trimming, and the title
\* resolved is the trimmed twitter:title.
C1_Witness ==
    /\ fpc > Len(FieldOrder)
    /\ page["property=og:title"] = Some(<<TAB>>)
    /\ page["name=twitter:title"] = Some(<<SP, "a", TAB>>)
    /\ meta["title"] = Some(<<"a">>)


\* ------------------------------------------------------------------ claims on extract_json_ld

RECURSIVE Flatten(_)
\* The nodes of all script blocks in document order.
Flatten(ss) ==
    IF ss = <<>> THEN <<>> ELSE NodesOf(Head(ss)) \o Flatten(Tail(ss))

\* C8: when extract_json_ld returns, each key holds the value offered by the
\* first node, in document order, whose offered value is not blank; a node
\* offering nothing, an empty or a whitespace-only value does not keep a later
\* node from supplying the key.
C8_FirstNodeWithValue ==
    spc > Len(scripts) /\ spc >= 1 =>
        \A key \in JsonKeys :
            LET nodes == Flatten(scripts)
                live == {n \in 1..Len(nodes) :
                            nodes[n].t = "dict" /\ NonBlank(Offered(nodes[n], key))}
            IN IF live = {}
               THEN clean_text(out[key]) = None
               ELSE LET first == CHOOSE n \in live : \A m \in live : n <= m
                    IN clean_text(out[key]) = clean_text(Offered(nodes[first], key))

\* ------------------------------------------------------------------ claims on dates

\* The fixed offset, in hours, the claim gives each zone designator.
StatedOffset(zone) ==
    CASE zone \in {"UTC", "GMT", "Z"} -> 0
      [] zone \in {"EST", "CDT"} -> -5
      [] zone = "EDT" -> -4
      [] zone \in {"CST", "MDT"} -> -6
      [] zone \in {"MST", "PDT"} -> -7
      [] zone = "PST" -> -8
      [] zone = "+05:00" -> 5
      [] zone = "-03:00" -> -3

\* C7: the published_date_iso of an accepted date string carries offset
\* +00:00, denotes the instant of the input when the input states a zone, and
\* is the same on every machine, also for an input that states no zone;
\* /CreationDate is that instant as D:...+00'00'.
C7_AbsoluteUtc ==
    (dpc \in {"stamp", "done"} /\ published_date_iso # NoDate) =>
        /\ published_date_iso.off = 0
        /\ dt_str.zone \in Abbreviations \cup NumericZones =>
              published_date_iso.day * 24 + published_date_iso.hour
                 = dt_str.wall - StatedOffset(dt_str.zone)
        /\ \A machine \in MachineOffsets :
              PublishedDateIso(dt_str, machine) = published_date_iso
        /\ dpc = "done" =>
              creation_date = <<"D:", published_date_iso.day, published_date_iso.hour,
                                "+00'00'">>

\* ------------------------------------------------------------------ claims on apply_pdf_metadata

\* The characters of str that are neither whitespace nor a comma.
Solid(str) == SelectSeq(str, LAMBDA c : ~IsSpace(c) /\ c # ",")

RECURSIVE Concat(_)
Concat(parts) == IF parts = <<>> THEN <<>> ELSE Head(parts) \o Concat(Tail(parts))

\* The number of comma-separated items of str that are not blank: the solid
\* characters with no solid character between them and the comma before.
Items(str) ==
    Cardinality({i \in 1..Len(str) :
        /\ ~IsSpace(str[i]) /\ str[i] # ","
        /\ \A j \in 1..(i - 1) :
              (~IsSpace(str[j]) /\ str[j] # ",") => \E c \in (j + 1)..(i - 1) : str[c] = ","})

\* The subject as the claim words it: the description, "Source URL: ..." and
\* "Published: ..." parts that exist, joined by " | ", at most 2000 characters.
StatedSubject(m) ==
    LET date == IF m.published_date_iso = NoDate THEN m.ctime_iso ELSE m.published_date_iso
        d == IF m.subject.has THEN <<m.subject.str>> ELSE <<>>
        u == IF m.source_url.has THEN <<SourceUrlLabel \o m.source_url.str>> ELSE <<>>
        parts == d \o u \o <<PublishedLabel \o IsoChars(date)>>
        joined == IF Len(parts) = 1 THEN parts[1]
                  ELSE IF Len(parts) = 2 THEN parts[1] \o Bar \o parts[2]
                  ELSE parts[1] \o Bar \o parts[2] \o Bar \o parts[3]
    IN [i \in 1..(IF Len(joined) < 2000 THEN Len(joined) ELSE 2000) |-> joined[i]]

\* C5: after apply_pdf_metadata the XMP packet and the info dictionary agree:
\* dc:title is /Title (the title, else the stem), dc:creator the one-element
\* list of /Author (the author, else "Unknown"), dc:description is /Subject
\* (the stated subject), dc:identifier holds /SourceURL when there is a source
\* URL, and dc:publisher, dc:language and dc:subject carry the publisher,
\* language and keywords of /Publisher, /Language and /Keywords when present.
C5_InfoXmpInSync ==
    ppc = "done" =>
        /\ xmp.dc_title.x_default = info.Title
        /\ info.Title = (IF pmeta.title.has THEN pmeta.title.str ELSE pmeta.stem)
        /\ xmp.dc_creator = <<info.Author>>
        /\ info.Author = (IF pmeta.author.has THEN pmeta.author.str ELSE Unknown)
        /\ xmp.dc_description.x_default = info.Subject
        /\ info.Subject = StatedSubject(pmeta)
        /\ pmeta.source_url.has =>
              /\ info.SourceURL = pmeta.source_url.str
              /\ xmp.dc_identifier = <<info.SourceURL>>
        /\ pmeta.publisher.has =>
              /\ info.Publisher = pmeta.publisher.str
              /\ "dc_publisher" \in DOMAIN xmp
              /\ xmp.dc_publisher = <<info.Publisher>>
        /\ pmeta.language.has =>
              /\ info.Language = pmeta.language.str
              /\ "dc_language" \in DOMAIN xmp
              /\ xmp.dc_language = <<info.Language>>
        /\ pmeta.keywords.has =>
              /\ info.Keywords = pmeta.keywords.str
              /\ "dc_subject" \in DOMAIN xmp
              /\ Solid(Concat(xmp.dc_subject)) = Solid(info.Keywords)
              /\ Len(xmp.dc_subject) = Items(info.Keywords)
              /\ \A k \in 1..Len(xmp.dc_subject) :
                    LET item == xmp.dc_subject[k]
                    IN /\ item # <<>>
                       /\ ~IsSpace(item[1]) /\ ~IsSpace(item[Len(item)])
                       /\ \A i \in 1..Len(item) : item[i] # ","

\* C5 witness: a long description is cut at 2000 characters, the title falls
\* back to the stem, and source URL, publisher, language and a keyword list
\* with blanks are all present.
C5_Witness ==
    /\ ppc = "done"
    /\ ~pmeta.title.has /\ info.Title = pmeta.stem
    /\ ~pmeta.author.has /\ xmp.dc_creator = <<Unknown>>
    /\ pmeta.subject.has /\ Len(pmeta.subject.str) = SubjectLimit - 20
    /\ Len(info.Subject) = 2000
    /\ pmeta.source_url.has /\ pmeta.publisher.has /\ pmeta.language.has
    /\ pmeta.keywords.has
    /\ xmp.dc_subject = << <<"k">>, <<"l", " ", "m">> >>

====
